---- MODULE Spec2Model ----
(***************************************************************************)
(* Redlock coordinator of amyangfei/redlock-go (redlock/redlock.go, the    *)
(* context-aware version at lines 231-497) and its ownership cache         *)
(* (redlock/kvcache.go, SimpleCache), over a set of Redis peers.           *)
(*                                                                         *)
(* Time passes in ticks of one time.Duration unit (Tick).  Instead of an   *)
(* absolute clock the state keeps, for every timestamp the code or a peer  *)
(* holds, the time elapsed since it (time.Since(start), time.Since(e.Ts))  *)
(* or the time left until it (a peer key's remaining ttl), so that time    *)
(* needs no bound.                                                         *)
(*                                                                         *)
(* A peer is modelled by the two commands the code sends it: SET key val   *)
(* NX PX ttl (lockInstance) and the UnlockScript (unlockInstance).  A peer *)
(* honours the ttl it was given exactly and keeps its keys while it is     *)
(* unreachable.  A request whose caller got an error may never have        *)
(* reached the peer, or may still be on the wire and reach the peer later  *)
(* (variable inflight).                                                    *)
(***************************************************************************)
EXTENDS Integers, FiniteSets, Sequences, TLC

\* ---------------------------------------------------------------- bounds
\* Lock calls in a behaviour (each draws one random string)
MaxCalls == 2
\* requests on the wire whose caller has given up on them
MaxInflight == 1
\* SpecEval: the elapsed times tried next to 0 and next to the ttl
MaxEvalCost == 6
\* SpecCfg: the longest list of addresses given to NewRedLock
MaxAddrs == 5

\* ----------------------------------------------------- program constants
\* ClockDriftFactor = 0.01, as a percentage
ClockDriftPercent == 1
\* the "+ 2" of the drift computation
DriftOverhead == 2
\* DefaultRetryCount, DefaultRetryDelay
DefaultRetryCount == 10
DefaultRetryDelay == 200
\* time.Millisecond: a time.Duration counts nanoseconds
Millisecond == 1000000

Peers == {1, 2, 3}
Procs == {"a", "b"}
Coords == {1, 2}
Resources == {"foo"}
TTLs == {4}

\* the quorum without the halving
QuorumNoHalf == Cardinality(Peers) + 1

\* quorum: len(addrs)/2 + 1
Quorum == Cardinality(Peers) \div 2 + 1

ErrNil == "nil"
ErrCanceled == "context.Canceled"
ErrAcquireLock == "ErrAcquireLock"

\* a peer without the key; a cache without the element; no call has returned
NoKey == [val |-> 0, left |-> 0]
NoElem == [Val |-> 0, Expiry |-> 0, age |-> 0]
NoRet == [op |-> "none", v |-> 0, err |-> ErrNil]

VARIABLES
    store,      \* store[q][r]: key r on peer q: [val, left] (left: ttl remaining) or NoKey
    inflight,   \* requests on the wire whose caller has given up on them
    cache,      \* cache[c][r]: SimpleCache.kvs of Coordinator c; age is time.Since(Ts)
    retryCount, \* retryCount[c]: the field of Coordinator c
    callers,    \* the callers that run
    owner,      \* owner[p]: the Coordinator caller p uses
    pc,         \* position of caller p: idle, lock, clean, sleep, unlock
    resource,   \* argument of the running call
    ttl,        \* argument of the running Lock
    val,        \* Lock's val
    i,          \* Lock's loop counter
    cost,       \* time.Since(start) of the running round
    success,    \* Lock's success counter
    ctxCancel,  \* Lock's ctxCancel counter
    done,       \* peers whose goroutine of the running fan-out has returned
    elem,       \* UnLock's elem.Val
    ret,        \* what the last call of p returned
    nextTok,    \* next unused random string
    held,       \* history: successful Locks neither expired nor released, [tok, key, left]
    released,   \* history: the values UnLock has sent conditional-deletes for
    rounds,     \* history: SetNX fan-outs of p's running or last Lock
    hadQuorum,  \* history: some round of p's running or last Lock counted >= quorum
    recording,  \* whether the two history variables below are kept (they observe the
                \* peers' answers and influence no step)
    accepted,   \* history: peers whose SetNX of p's running round returned true
    cleaned,    \* history: peers that have run a delete of p's running cleanup or UnLock
    built,      \* built[c]: what NewRedLock returned for Coordinator c
    retryDelay, \* retryDelay[c]: the field of Coordinator c
    cacheType,  \* CacheOptions.CacheType of the KVCache under test
    kv,         \* the KVCache under test: kv[key] is a LockElem or NoElem
    got         \* the last call of a setter or on the KVCache under test: arguments, result

\* the Coordinator's construction and delay, and the KVCache under test
auxVars == <<recording, built, retryDelay, cacheType, kv, got>>

vars == <<store, inflight, cache, retryCount, callers, owner, pc, resource, ttl, val, i, cost,
          success, ctxCancel, done, elem, ret, nextTok, held, released, rounds,
          hadQuorum, recording, accepted, cleaned, built, retryDelay, cacheType, kv,
          got>>

\* ------------------------------------------------------------- the peers
\* a SET NX that passes no expiration
SetNXValNoExpiry(s, v, d) == IF s.val = 0 THEN [val |-> v, left |-> 0] ELSE s

\* SET key val NX PX d on a peer's key s (d = 0: the key is set without expiration)
SetNXVal(s, v, d) == IF s.val = 0 THEN [val |-> v, left |-> d] ELSE s
SetNXOk(s) == s.val = 0

\* a script that deletes the key whatever it holds
UnlockScriptAlways(s, v) == NoKey

\* UnlockScript: delete the key only if it holds the caller's value
UnlockScriptVal(s, v) == IF s.val = v THEN NoKey ELSE s

\* one tick on a peer: a key is dropped once its ttl has passed
PeerTick(s) ==
    IF s.val # 0 /\ s.left = 0 THEN s
    ELSE IF s.val # 0 /\ s.left > 1 THEN [s EXCEPT !.left = @ - 1] ELSE NoKey

\* ------------------------------------------------------------- the cache
\* an element that never counts as expired
expireNever(e) == FALSE

\* LockElem.expire: time.Since(e.Ts).Nanoseconds() > e.Expiry
expire(e) == e.age > e.Expiry

\* a Set that keeps what the map holds, and a Delete that clears the map
CacheSetIfAbsent(kvs, key, v, expiry) ==
    IF kvs[key].Val # 0 THEN kvs
    ELSE [kvs EXCEPT ![key] = [Val |-> v, Expiry |-> expiry, age |-> 0]]
CacheDeleteAll(kvs, key) == [k \in DOMAIN kvs |-> NoElem]

\* SimpleCache.Set / Get / Delete on the map kvs
CacheSet(kvs, key, v, expiry) ==
    [kvs EXCEPT ![key] = [Val |-> v, Expiry |-> expiry, age |-> 0]]

CacheGet(kvs, key) ==
    IF kvs[key].Val # 0 /\ ~expire(kvs[key]) THEN kvs[key] ELSE NoElem

\* a Delete that leaves the map alone, and one that removes only what has expired
CacheDeleteNothing(kvs, key) == kvs
CacheDeleteExpired(kvs, key) ==
    IF kvs[key].age > kvs[key].Expiry THEN [kvs EXCEPT ![key] = NoElem] ELSE kvs

CacheDelete(kvs, key) == [kvs EXCEPT ![key] = NoElem]

\* a sweep that removes every element
gcAll(kvs) == [k \in DOMAIN kvs |-> NoElem]

\* SimpleCache.gc and SimpleCache.Size
gc(kvs) == [k \in DOMAIN kvs |-> IF kvs[k].Val # 0 /\ expire(kvs[k]) THEN NoElem ELSE kvs[k]]
Size(kvs) == Cardinality({k \in DOMAIN kvs : kvs[k].Val # 0})

\* int(math.Ceil(float64(expiry)/1000)): freecache's expireSeconds
ExpireSeconds(expiry) ==
    IF expiry > 0 THEN (expiry + 999) \div 1000 ELSE -((-expiry) \div 1000)

\* FreeCache.Set / Get / Delete / Size: the LockElem is stored as JSON with a native
\* expiry of secs seconds (secs <= 0: freecache keeps the entry without expiry)
FreeCacheSet(kvs, key, v, expiry) ==
    [kvs EXCEPT ![key] = [Val |-> v, Expiry |-> expiry, age |-> 0,
                          secs |-> ExpireSeconds(expiry)]]
FreeCacheGet(kvs, key) ==
    IF kvs[key].Val # 0
    THEN [Val |-> kvs[key].Val, Expiry |-> kvs[key].Expiry, age |-> kvs[key].age]
    ELSE NoElem
FreeCacheDelete(kvs, key) == [kvs EXCEPT ![key] = NoElem]
FreeCacheSize(kvs) == Cardinality({k \in DOMAIN kvs : kvs[k].Val # 0})

\* NewCacheImpl: the implementation behind the KVCache interface
CacheTypeSimple == "simple"
CacheTypeFreeCache == "freecache"
KVSet(tp, kvs, key, v, expiry) ==
    IF tp = CacheTypeFreeCache THEN FreeCacheSet(kvs, key, v, expiry)
                               ELSE CacheSet(kvs, key, v, expiry)
KVGet(tp, kvs, key) ==
    IF tp = CacheTypeFreeCache THEN FreeCacheGet(kvs, key) ELSE CacheGet(kvs, key)
KVDelete(tp, kvs, key) ==
    IF tp = CacheTypeFreeCache THEN FreeCacheDelete(kvs, key) ELSE CacheDelete(kvs, key)
KVSize(tp, kvs) ==
    IF tp = CacheTypeFreeCache THEN FreeCacheSize(kvs) ELSE Size(kvs)

\* a second passes on an element: any validity of the model is over, and freecache
\* drops an entry whose native expiry has come
SecondPasses(e) ==
    IF e.Val = 0 THEN e
    ELSE IF "secs" \in DOMAIN e /\ e.secs = 1 THEN NoElem
    ELSE IF "secs" \in DOMAIN e /\ e.secs > 1
         THEN [e EXCEPT !.secs = @ - 1,
                        !.age = IF e.Expiry >= 0 THEN e.Expiry + 1 ELSE e.age]
    ELSE [e EXCEPT !.age = IF e.Expiry >= 0 THEN e.Expiry + 1 ELSE e.age]

\* one tick on a LockElem (an expired element stays expired: the age stops there)
ElemTick(e) == IF e.Val # 0 /\ e.age <= e.Expiry THEN [e EXCEPT !.age = @ + 1] ELSE e

\* ------------------------------------------------------- the coordinator
\* the drift without its "+ 2"
DriftTruncated(d) ==
    IF d >= 0 THEN (d * ClockDriftPercent) \div 100
              ELSE -(((-d) * ClockDriftPercent) \div 100)

\* int(float64(ttl)*r.driftFactor) + 2: the conversion truncates towards zero
Drift(d) ==
    (IF d >= 0 THEN (d * ClockDriftPercent) \div 100
               ELSE -(((-d) * ClockDriftPercent) \div 100)) + DriftOverhead

\* a validity that forgets the time the round took
ValidityTimeNoCost(d, c) == d - Drift(d)

\* validityTime := int64(ttl) - costTime - int64(drift)
ValidityTime(d, c) == d - c - Drift(d)

\* a commit that does not look at the validity
CommitsOnQuorum(n, v) == n >= Quorum

\* int(success) >= r.quorum && validityTime > 0
Commits(n, v) == n >= Quorum /\ v > 0

\* a fast fail that needs two goroutines to see the cancellation
CanceledTwice(n) == n > 1

\* the fast fail: atomic.LoadInt32(&ctxCancel) > int32(0)
Canceled(n) == n > 0

\* a loop that runs once more
\* a loop that ignores SetRetryCount and runs DefaultRetryCount times
LoopRunsToDefault(n, c) == n < DefaultRetryCount

LoopRunsOnceMore(n, c) == n <= retryCount[c]

\* the loop condition i < r.retryCount
LoopRuns(n, c) == n < retryCount[c]

\* the values Lock returns
RetCanceled == [op |-> "Lock", v |-> 0, err |-> ErrCanceled]
\* a Lock that hands a peer's refusal to its caller
RetLockSingleRedis == [op |-> "Lock", v |-> 0, err |-> "ErrLockSingleRedis"]
RetAcquireLock == [op |-> "Lock", v |-> 0, err |-> ErrAcquireLock]
\* a Lock that returns more validity than it wrote into the cache
RetLockedMore(v) == [op |-> "Lock", v |-> v + 1, err |-> ErrNil]
RetLocked(v) == [op |-> "Lock", v |-> v, err |-> ErrNil]
\* the value UnLock returns
RetUnLock == [op |-> "UnLock", v |-> 0, err |-> ErrNil]

\* addresses: one that parseConnString accepts, one whose db path is not a number
GoodAddr == "tcp://127.0.0.1:6379"
BadAddr == "tcp://127.0.0.1:6379/db"
AddrKinds == {GoodAddr, BadAddr}
\* parseConnString returns no error
ParseOk(addr) == addr = GoodAddr

\* NewRedLock has not been called
NotBuilt == [ok |-> FALSE, err |-> FALSE, addrs |-> <<>>, clients |-> <<>>, quorum |-> 0]

\* a NewRedLock without the check of the length of addrs
NewRedLockNoParity(addrs) ==
    IF \E k \in 1..Len(addrs) : ~ParseOk(addrs[k])
    THEN [ok |-> FALSE, err |-> TRUE, addrs |-> addrs, clients |-> <<>>, quorum |-> 0]
    ELSE [ok |-> TRUE, err |-> FALSE, addrs |-> addrs, clients |-> addrs,
          quorum |-> Len(addrs) \div 2 + 1]

\* NewRedLock(addrs): (nil, error), or the Coordinator with its clients and quorum;
\* addrs is the argument, kept with the result
NewRedLockRet(addrs) ==
    IF Len(addrs) % 2 = 0
    THEN [ok |-> FALSE, err |-> TRUE, addrs |-> addrs, clients |-> <<>>, quorum |-> 0]
    ELSE IF \E k \in 1..Len(addrs) : ~ParseOk(addrs[k])
    THEN [ok |-> FALSE, err |-> TRUE, addrs |-> addrs, clients |-> <<>>, quorum |-> 0]
    ELSE [ok |-> TRUE, err |-> FALSE, addrs |-> addrs, clients |-> addrs,
          quorum |-> Len(addrs) \div 2 + 1]

\* a SetRetryDelay that lets 0 through
SetRetryDelayNonNegative(cur, delay) == IF delay < 0 THEN cur ELSE delay

\* SetRetryCount, SetRetryDelay: the field after the call
SetRetryCountTo(cur, count) == IF count <= 0 THEN cur ELSE count
SetRetryDelayTo(cur, delay) == IF delay <= 0 THEN cur ELSE delay

\* the keys of the KVCache under test, and no result yet
CacheKeys == {"k1", "k2"}
NoGot == [op |-> "none"]

\* Coordinators built by NewRedLock over Peers with the default options; the KVCache
\* under test is empty
InitAux ==
    /\ built = [c \in Coords |-> NewRedLockRet([q \in 1..Cardinality(Peers) |-> GoodAddr])]
    /\ retryDelay = [c \in Coords |-> DefaultRetryDelay]
    /\ cacheType = CacheTypeSimple
    /\ kv = [k \in CacheKeys |-> NoElem]
    /\ got = NoGot

\* no call is running, the peers and the caches are empty
InitIdle ==
    /\ accepted = [p \in Procs |-> {}]
    /\ cleaned = [p \in Procs |-> {}]
    /\ store = [q \in Peers |-> [r \in Resources |-> NoKey]]
    /\ inflight = {}
    /\ cache = [c \in Coords |-> [r \in Resources |-> NoElem]]
    /\ pc = [p \in Procs |-> "idle"]
    /\ resource = [p \in Procs |-> "foo"]
    /\ ttl = [p \in Procs |-> 0]
    /\ val = [p \in Procs |-> 0]
    /\ i = [p \in Procs |-> 0]
    /\ cost = [p \in Procs |-> 0]
    /\ success = [p \in Procs |-> 0]
    /\ ctxCancel = [p \in Procs |-> 0]
    /\ done = [p \in Procs |-> {}]
    /\ elem = [p \in Procs |-> 0]
    /\ ret = [p \in Procs |-> NoRet]
    /\ nextTok = 1
    /\ held = {}
    /\ released = {}
    /\ rounds = [p \in Procs |-> 0]
    /\ hadQuorum = [p \in Procs |-> FALSE]

\* the state after construction, whatever the callers and the retry counts are
InitCommon ==
    /\ InitAux
    /\ InitIdle

\* the retry counts SetRetryCount has left
RetryCounts == {1, 2}

\* one caller on one Coordinator, after SetRetryCount(n)
Init ==
    /\ InitCommon
    /\ recording = FALSE
    /\ callers = {"a"}
    /\ owner = [p \in Procs |-> 1]
    /\ \E n \in RetryCounts : retryCount = [c \in Coords |-> n]

\* the frame of a call is gone once it has returned
Return(p, r) ==
    /\ ret' = [ret EXCEPT ![p] = r]
    /\ pc' = [pc EXCEPT ![p] = "idle"]
    /\ ttl' = [ttl EXCEPT ![p] = 0]
    /\ val' = [val EXCEPT ![p] = 0]
    /\ i' = [i EXCEPT ![p] = 0]
    /\ cost' = [cost EXCEPT ![p] = 0]
    /\ success' = [success EXCEPT ![p] = 0]
    /\ ctxCancel' = [ctxCancel EXCEPT ![p] = 0]
    /\ done' = [done EXCEPT ![p] = {}]
    /\ elem' = [elem EXCEPT ![p] = 0]
    /\ accepted' = [accepted EXCEPT ![p] = {}]
    /\ cleaned' = [cleaned EXCEPT ![p] = {}]

\* Lock is called: val := getRandStr(), and the first round starts
LockCall(p, r, d) ==
    /\ pc[p] = "idle"
    /\ nextTok <= MaxCalls
    /\ LoopRuns(0, owner[p])
    /\ val' = [val EXCEPT ![p] = nextTok]
    /\ nextTok' = nextTok + 1
    /\ resource' = [resource EXCEPT ![p] = r]
    /\ ttl' = [ttl EXCEPT ![p] = d]
    /\ pc' = [pc EXCEPT ![p] = "lock"]
    /\ rounds' = [rounds EXCEPT ![p] = 1]
    /\ hadQuorum' = [hadQuorum EXCEPT ![p] = FALSE]
    /\ UNCHANGED <<store, inflight, cache, retryCount, callers, owner, i, cost, success,
                   ctxCancel, done, elem, ret, held, released>>
    /\ accepted' = [accepted EXCEPT ![p] = {}]
    /\ UNCHANGED <<cleaned, auxVars>>

\* lockInstance: the peer answers SetNX before the round's deadline
SetReply(p, q) ==
    /\ pc[p] = "lock"
    /\ q \notin done[p]
    /\ cost[p] < ttl[p]
    /\ LET s == store[q][resource[p]] IN
        /\ store' = [store EXCEPT ![q][resource[p]] = SetNXVal(s, val[p], ttl[p])]
        /\ success' = [success EXCEPT ![p] = IF SetNXOk(s) THEN @ + 1 ELSE @]
    /\ done' = [done EXCEPT ![p] = @ \cup {q}]
    /\ UNCHANGED <<inflight, cache, retryCount, callers, owner, pc, resource, ttl, val, i,
                   cost, ctxCancel, elem, ret, nextTok, held, released, rounds, hadQuorum>>
    /\ accepted' = [accepted EXCEPT ![p] =
                        IF recording /\ SetNXOk(store[q][resource[p]]) THEN @ \cup {q}
                                                                         ELSE @]
    /\ UNCHANGED <<cleaned, auxVars>>

\* lockInstance: an error other than context.Canceled, the peer never sees the request
SetFail(p, q) ==
    /\ pc[p] = "lock"
    /\ q \notin done[p]
    /\ done' = [done EXCEPT ![p] = @ \cup {q}]
    /\ UNCHANGED <<store, inflight, cache, retryCount, callers, owner, pc, resource, ttl,
                   val, i, cost, success, ctxCancel, elem, ret, nextTok, held, released,
                   rounds, hadQuorum>>
    /\ UNCHANGED <<accepted, cleaned, auxVars>>

\* lockInstance: the peer runs SetNX, the reply is lost and the caller gets an error
SetNoReply(p, q) ==
    /\ pc[p] = "lock"
    /\ q \notin done[p]
    /\ store' = [store EXCEPT ![q][resource[p]] = SetNXVal(@, val[p], ttl[p])]
    /\ done' = [done EXCEPT ![p] = @ \cup {q}]
    /\ UNCHANGED <<inflight, cache, retryCount, callers, owner, pc, resource, ttl, val, i,
                   cost, success, ctxCancel, elem, ret, nextTok, held, released, rounds,
                   hadQuorum>>
    /\ UNCHANGED <<accepted, cleaned, auxVars>>

\* lockInstance: an error other than context.Canceled, the request is still on the wire
SetLost(p, q) ==
    /\ pc[p] = "lock"
    /\ q \notin done[p]
    /\ Cardinality(inflight) < MaxInflight
    /\ inflight' = inflight \cup
          {[op |-> "set", peer |-> q, key |-> resource[p], val |-> val[p], ttl |-> ttl[p]]}
    /\ done' = [done EXCEPT ![p] = @ \cup {q}]
    /\ UNCHANGED <<store, cache, retryCount, callers, owner, pc, resource, ttl, val, i,
                   cost, success, ctxCancel, elem, ret, nextTok, held, released, rounds,
                   hadQuorum>>
    /\ UNCHANGED <<accepted, cleaned, auxVars>>

\* lockInstance: the caller has cancelled ctx and the goroutine gets context.Canceled
SetCancel(p, q) ==
    /\ pc[p] = "lock"
    /\ q \notin done[p]
    /\ ctxCancel' = [ctxCancel EXCEPT ![p] = @ + 1]
    /\ done' = [done EXCEPT ![p] = @ \cup {q}]
    /\ UNCHANGED <<store, inflight, cache, retryCount, callers, owner, pc, resource, ttl,
                   val, i, cost, success, elem, ret, nextTok, held, released, rounds,
                   hadQuorum>>
    /\ UNCHANGED <<accepted, cleaned, auxVars>>

\* Lock after wg.Wait() of the SetNX round: fast fail, commit, or start the cleanup
LockEval(p) ==
    /\ pc[p] = "lock"
    /\ done[p] = Peers
    /\ LET validityTime == ValidityTime(ttl[p], cost[p]) IN
       IF Canceled(ctxCancel[p])
       THEN /\ Return(p, RetCanceled)
            /\ UNCHANGED <<cache, held>>
       ELSE IF Commits(success[p], validityTime)
       THEN /\ cache' = [cache EXCEPT ![owner[p]] =
                            CacheSet(@, resource[p], val[p], validityTime)]
            /\ Return(p, RetLocked(validityTime))
            /\ held' = held \cup
                  {[tok |-> val[p], key |-> resource[p], left |-> validityTime]}
       ELSE /\ pc' = [pc EXCEPT ![p] = "clean"]
            /\ done' = [done EXCEPT ![p] = {}]
            /\ UNCHANGED <<cache, ret, held, ttl, val, i, cost, success, ctxCancel, elem,
                           accepted, cleaned>>
    /\ hadQuorum' = [hadQuorum EXCEPT ![p] = @ \/ success[p] >= Cardinality(Peers) \div 2 + 1]
    /\ UNCHANGED <<store, inflight, retryCount, callers, owner, resource, nextTok,
                   released, rounds>>
    /\ UNCHANGED auxVars

\* a cleanup that carries the cached value instead of the call's own token
UnlockValCached(p) == elem[p]
\* an UnLock that carries Lock's val, which it does not have
UnlockValOwn(p) == val[p]

\* the value a running fan-out of conditional-deletes carries
UnlockVal(p) == IF pc[p] = "clean" THEN val[p] ELSE elem[p]

\* unlockInstance: the peer runs the UnlockScript (its answer is not read)
UnlockReply(p, q) ==
    /\ pc[p] \in {"clean", "unlock"}
    /\ q \notin done[p]
    /\ store' = [store EXCEPT ![q][resource[p]] = UnlockScriptVal(@, UnlockVal(p))]
    /\ done' = [done EXCEPT ![p] = @ \cup {q}]
    /\ UNCHANGED <<inflight, cache, retryCount, callers, owner, pc, resource, ttl, val, i,
                   cost, success, ctxCancel, elem, ret, nextTok, held, released, rounds,
                   hadQuorum>>
    /\ cleaned' = [cleaned EXCEPT ![p] = IF recording THEN @ \cup {q} ELSE @]
    /\ UNCHANGED <<accepted, auxVars>>

\* unlockInstance: an error, the peer never sees the request
UnlockFail(p, q) ==
    /\ pc[p] \in {"clean", "unlock"}
    /\ q \notin done[p]
    /\ done' = [done EXCEPT ![p] = @ \cup {q}]
    /\ UNCHANGED <<store, inflight, cache, retryCount, callers, owner, pc, resource, ttl,
                   val, i, cost, success, ctxCancel, elem, ret, nextTok, held, released,
                   rounds, hadQuorum>>
    /\ UNCHANGED <<accepted, cleaned, auxVars>>

\* unlockInstance: an error, the request is still on the wire
UnlockLost(p, q) ==
    /\ pc[p] \in {"clean", "unlock"}
    /\ q \notin done[p]
    /\ Cardinality(inflight) < MaxInflight
    /\ inflight' = inflight \cup
          {[op |-> "del", peer |-> q, key |-> resource[p], val |-> UnlockVal(p), ttl |-> 0]}
    /\ done' = [done EXCEPT ![p] = @ \cup {q}]
    /\ UNCHANGED <<store, cache, retryCount, callers, owner, pc, resource, ttl, val, i,
                   cost, success, ctxCancel, elem, ret, nextTok, held, released, rounds,
                   hadQuorum>>
    /\ UNCHANGED <<accepted, cleaned, auxVars>>

\* Lock after wg.Wait() of the cleanup round: the random sleep begins
CleanDone(p) ==
    /\ pc[p] = "clean"
    /\ done[p] = Peers
    /\ pc' = [pc EXCEPT ![p] = "sleep"]
    /\ done' = [done EXCEPT ![p] = {}]
    /\ UNCHANGED <<store, inflight, cache, retryCount, callers, owner, resource, ttl, val,
                   i, cost, success, ctxCancel, elem, ret, nextTok, held, released,
                   rounds, hadQuorum>>
    /\ accepted' = [accepted EXCEPT ![p] = {}]
    /\ cleaned' = [cleaned EXCEPT ![p] = {}]
    /\ UNCHANGED auxVars

\* Lock after the sleep: i++, then the next round or ErrAcquireLock
Retry(p) ==
    /\ pc[p] = "sleep"
    /\ IF LoopRuns(i[p] + 1, owner[p])
       THEN /\ i' = [i EXCEPT ![p] = @ + 1]
            /\ cost' = [cost EXCEPT ![p] = 0]
            /\ success' = [success EXCEPT ![p] = 0]
            /\ ctxCancel' = [ctxCancel EXCEPT ![p] = 0]
            /\ pc' = [pc EXCEPT ![p] = "lock"]
            /\ rounds' = [rounds EXCEPT ![p] = @ + 1]
            /\ accepted' = [accepted EXCEPT ![p] = {}]
            /\ cleaned' = [cleaned EXCEPT ![p] = {}]
            /\ UNCHANGED <<ret, ttl, val, done, elem>>
       ELSE /\ Return(p, RetAcquireLock)
            /\ UNCHANGED rounds
    /\ UNCHANGED <<store, inflight, cache, retryCount, callers, owner, resource, nextTok,
                   held, released, hadQuorum>>
    /\ UNCHANGED auxVars

\* UnLock is called: the cache lookup, and either the early return or the fan-out
UnLockCall(p, r) ==
    /\ pc[p] = "idle"
    /\ LET e == CacheGet(cache[owner[p]], r) IN
       IF e = NoElem
       THEN /\ Return(p, RetUnLock)
            /\ UNCHANGED <<resource, held, released>>
       ELSE /\ elem' = [elem EXCEPT ![p] = e.Val]
            /\ resource' = [resource EXCEPT ![p] = r]
            /\ pc' = [pc EXCEPT ![p] = "unlock"]
            /\ held' = {h \in held : h.tok # e.Val}
            /\ released' = released \cup {e.Val}
            /\ UNCHANGED <<ret, ttl, val, i, cost, success, ctxCancel, done, accepted,
                           cleaned>>
    /\ UNCHANGED <<store, inflight, cache, retryCount, callers, owner, nextTok, rounds,
                   hadQuorum>>
    /\ UNCHANGED auxVars

\* UnLock after wg.Wait(): return nil, and the deferred cache.Delete runs
UnLockDone(p) ==
    /\ pc[p] = "unlock"
    /\ done[p] = Peers
    /\ cache' = [cache EXCEPT ![owner[p]] = CacheDelete(@, resource[p])]
    /\ Return(p, RetUnLock)
    /\ UNCHANGED <<store, inflight, retryCount, callers, owner, resource, nextTok, held,
                   released, rounds, hadQuorum>>
    /\ UNCHANGED auxVars

\* a request its caller gave up on reaches the peer
Deliver(m) ==
    /\ m \in inflight
    /\ inflight' = inflight \ {m}
    /\ store' = [store EXCEPT ![m.peer][m.key] =
                    IF m.op = "set" THEN SetNXVal(@, m.val, m.ttl)
                                    ELSE UnlockScriptVal(@, m.val)]
    /\ UNCHANGED <<cache, retryCount, callers, owner, pc, resource, ttl, val, i, cost,
                   success, ctxCancel, done, elem, ret, nextTok, held, released, rounds,
                   hadQuorum>>
    /\ UNCHANGED <<accepted, cleaned, auxVars>>

\* one tick passes, on the peers and on the callers
Tick ==
    /\ store' = [q \in Peers |-> [r \in Resources |-> PeerTick(store[q][r])]]
    /\ cache' = [c \in Coords |-> [r \in Resources |-> ElemTick(cache[c][r])]]
    /\ cost' = [p \in Procs |-> IF pc[p] = "lock" /\ cost[p] < ttl[p]
                                THEN cost[p] + 1 ELSE cost[p]]
    /\ held' = {[h EXCEPT !.left = @ - 1] : h \in {g \in held : g.left > 1}}
    /\ UNCHANGED <<inflight, retryCount, callers, owner, pc, resource, ttl, val, i,
                   success, ctxCancel, done, elem, ret, nextTok, released, rounds,
                   hadQuorum>>
    /\ UNCHANGED <<accepted, cleaned, auxVars>>

\* the steps of the callers
CallerStep ==
    \/ \E p \in callers, r \in Resources, d \in TTLs : LockCall(p, r, d)
    \/ \E p \in callers, q \in Peers : SetReply(p, q)
    \/ \E p \in callers, q \in Peers : SetFail(p, q)
    \/ \E p \in callers, q \in Peers : SetNoReply(p, q)
    \/ \E p \in callers, q \in Peers : SetCancel(p, q)
    \/ \E p \in callers : LockEval(p)
    \/ \E p \in callers, q \in Peers : UnlockReply(p, q)
    \/ \E p \in callers, q \in Peers : UnlockFail(p, q)
    \/ \E p \in callers : CleanDone(p)
    \/ \E p \in callers : Retry(p)
    \/ \E p \in callers, r \in Resources : UnLockCall(p, r)
    \/ \E p \in callers : UnLockDone(p)

\* the steps of requests that outlive their caller's wait
WireStep ==
    \/ \E p \in callers, q \in Peers : SetLost(p, q)
    \/ \E p \in callers, q \in Peers : UnlockLost(p, q)
    \/ \E m \in inflight : Deliver(m)

\* the callers while time passes, every request answered or failed within its caller's wait
Next == CallerStep \/ Tick

Spec == Init /\ [][Next]_vars

\* the callers within one tick of the clock, with requests that reach a peer late
NextWire == CallerStep \/ WireStep

\* as Init, with the peers' answers recorded
InitWire ==
    /\ InitCommon
    /\ recording = TRUE
    /\ callers = {"a"}
    /\ owner = [p \in Procs |-> 1]
    /\ \E n \in RetryCounts : retryCount = [c \in Coords |-> n]

SpecWire == InitWire /\ [][NextWire]_vars

\* ---------------------------------------------- the evaluation of a round
\* the ttls and elapsed times a round is evaluated with
EvalTTLs == {-100, -1, 0, 1, 2, 3, 4, 5, 99, 100, 101, 199, 200, 201, 300,
             200 * Millisecond}
EvalCosts(d) ==
    LET top == (IF d > 0 THEN d ELSE 0) + 1 IN
    {c \in 0..MaxEvalCost : c <= top} \cup {c \in (d - MaxEvalCost)..top : c >= 0}

\* Lock right after wg.Wait() of its first SetNX round, for every ttl, elapsed time
\* and outcome of the goroutines; the peers that answered hold the key since start
InitEval ==
    /\ \E d \in EvalTTLs, n \in 0..Cardinality(Peers), k \in 0..Cardinality(Peers) :
          /\ n + k <= Cardinality(Peers)
          /\ ttl = [p \in Procs |-> IF p = "a" THEN d ELSE 0]
          /\ success = [p \in Procs |-> IF p = "a" THEN n ELSE 0]
          /\ ctxCancel = [p \in Procs |-> IF p = "a" THEN k ELSE 0]
          /\ \E c \in EvalCosts(d) :
                /\ cost = [p \in Procs |-> IF p = "a" THEN c ELSE 0]
                /\ store = [q \in Peers |-> [r \in Resources |->
                               IF q <= n /\ c < d THEN [val |-> 1, left |-> d - c]
                                                  ELSE NoKey]]
    /\ inflight = {}
    /\ cache = [c \in Coords |-> [r \in Resources |-> NoElem]]
    /\ callers = {"a"}
    /\ owner = [p \in Procs |-> 1]
    /\ retryCount = [c \in Coords |-> 2]
    /\ pc = [p \in Procs |-> IF p = "a" THEN "lock" ELSE "idle"]
    /\ resource = [p \in Procs |-> "foo"]
    /\ val = [p \in Procs |-> IF p = "a" THEN 1 ELSE 0]
    /\ i = [p \in Procs |-> 0]
    /\ done = [p \in Procs |-> IF p = "a" THEN Peers ELSE {}]
    /\ elem = [p \in Procs |-> 0]
    /\ ret = [p \in Procs |-> NoRet]
    /\ nextTok = 2
    /\ held = {}
    /\ released = {}
    /\ rounds = [p \in Procs |-> IF p = "a" THEN 1 ELSE 0]
    /\ hadQuorum = [p \in Procs |-> FALSE]
    /\ accepted = [p \in Procs |-> IF p = "a" THEN {q \in Peers : q <= success[p]} ELSE {}]
    /\ cleaned = [p \in Procs |-> {}]
    /\ recording = TRUE
    /\ InitAux

NextEval == \E p \in callers : LockEval(p)

SpecEval == InitEval /\ [][NextEval]_vars

\* ------------------------------------- a later Lock, the holder never unlocks
\* caller "a" has just returned from a successful Lock on Coordinator 1: a quorum of
\* peers S stores its token since some instant of the round, which took c ticks;
\* caller "b" uses Coordinator 2 and is about to call Lock
InitLive ==
    /\ \E S \in SUBSET Peers, d \in TTLs, c \in 0..1 :
          /\ Cardinality(S) >= Quorum
          /\ Commits(Cardinality(S), ValidityTime(d, c))
          /\ \E f \in [Peers -> (d - c)..d] :
                store = [q \in Peers |-> [r \in Resources |->
                            IF q \in S THEN [val |-> 1, left |-> f[q]] ELSE NoKey]]
          /\ cache = [k \in Coords |->
                         IF k = 1 THEN CacheSet([r \in Resources |-> NoElem], "foo", 1,
                                                ValidityTime(d, c))
                                  ELSE [r \in Resources |-> NoElem]]
          /\ held = {[tok |-> 1, key |-> "foo", left |-> ValidityTime(d, c)]}
          /\ ret = [p \in Procs |-> IF p = "a" THEN RetLocked(ValidityTime(d, c))
                                               ELSE NoRet]
    /\ inflight = {}
    /\ callers = {"b"}
    /\ owner = [p \in Procs |-> IF p = "a" THEN 1 ELSE 2]
    /\ \E n \in RetryCounts : retryCount = [k \in Coords |-> n]
    /\ pc = [p \in Procs |-> "idle"]
    /\ resource = [p \in Procs |-> "foo"]
    /\ ttl = [p \in Procs |-> 0]
    /\ val = [p \in Procs |-> 0]
    /\ i = [p \in Procs |-> 0]
    /\ cost = [p \in Procs |-> 0]
    /\ success = [p \in Procs |-> 0]
    /\ ctxCancel = [p \in Procs |-> 0]
    /\ done = [p \in Procs |-> {}]
    /\ elem = [p \in Procs |-> 0]
    /\ nextTok = 2
    /\ released = {}
    /\ rounds = [p \in Procs |-> IF p = "a" THEN 1 ELSE 0]
    /\ hadQuorum = [p \in Procs |-> p = "a"]
    /\ accepted = [p \in Procs |-> {}]
    /\ cleaned = [p \in Procs |-> {}]
    /\ recording = FALSE
    /\ InitAux

\* the steps of Lock calls whose peers answer or fail within the caller's wait
LiveStep ==
    \/ \E p \in callers, r \in Resources, d \in TTLs : LockCall(p, r, d)
    \/ \E p \in callers, q \in Peers : SetReply(p, q)
    \/ \E p \in callers, q \in Peers : SetFail(p, q)
    \/ \E p \in callers : LockEval(p)
    \/ \E p \in callers, q \in Peers : UnlockReply(p, q)
    \/ \E p \in callers, q \in Peers : UnlockFail(p, q)
    \/ \E p \in callers : CleanDone(p)
    \/ \E p \in callers : Retry(p)

NextLive == LiveStep \/ Tick

\* time keeps passing
SpecLive == InitLive /\ [][NextLive]_vars /\ WF_vars(Tick)

\* ------------------------------------------- construction and the setters
\* the arguments of NewRedLock and of the setters
AddrLists == UNION {[1..n -> AddrKinds] : n \in 0..MaxAddrs}
SetterArgs == {-1, 0, 1, 2}

\* no Coordinator has been constructed
InitCfg ==
    /\ InitIdle
    /\ recording = FALSE
    /\ callers = {}
    /\ owner = [p \in Procs |-> 1]
    /\ retryCount = [c \in Coords |-> 0]
    /\ retryDelay = [c \in Coords |-> 0]
    /\ built = [c \in Coords |-> NotBuilt]
    /\ cacheType = CacheTypeSimple
    /\ kv = [k \in CacheKeys |-> NoElem]
    /\ got = NoGot

\* the variables of the calls, the peers and the caches
callVars == <<store, inflight, cache, callers, owner, pc, resource, ttl, val, i, cost,
              success, ctxCancel, done, elem, ret, nextTok, held, released, rounds,
              hadQuorum, accepted, cleaned>>

\* NewRedLock(ctx, addrs) for Coordinator c
NewRedLock(c, addrs) ==
    /\ built[c] = NotBuilt
    /\ built' = [built EXCEPT ![c] = NewRedLockRet(addrs)]
    /\ IF NewRedLockRet(addrs).ok
       THEN /\ retryCount' = [retryCount EXCEPT ![c] = DefaultRetryCount]
            /\ retryDelay' = [retryDelay EXCEPT ![c] = DefaultRetryDelay]
       ELSE UNCHANGED <<retryCount, retryDelay>>
    /\ UNCHANGED <<callVars, recording, cacheType, kv, got>>

\* r.SetRetryCount(count) on Coordinator c
SetRetryCount(c, count) ==
    /\ built[c].ok
    /\ retryCount' = [retryCount EXCEPT ![c] = SetRetryCountTo(@, count)]
    /\ got' = [op |-> "SetRetryCount", c |-> c, n |-> count]
    /\ UNCHANGED <<callVars, recording, built, retryDelay, cacheType, kv>>

\* r.SetRetryDelay(delay) on Coordinator c
SetRetryDelay(c, delay) ==
    /\ built[c].ok
    /\ retryDelay' = [retryDelay EXCEPT ![c] = SetRetryDelayTo(@, delay)]
    /\ got' = [op |-> "SetRetryDelay", c |-> c, n |-> delay]
    /\ UNCHANGED <<callVars, recording, built, retryCount, cacheType, kv>>

NextCfg ==
    \/ \E c \in Coords, addrs \in AddrLists : NewRedLock(c, addrs)
    \/ \E c \in Coords, count \in SetterArgs : SetRetryCount(c, count)
    \/ \E c \in Coords, delay \in SetterArgs : SetRetryDelay(c, delay)

SpecCfg == InitCfg /\ [][NextCfg]_vars

\* ------------------------------------------------------ the KVCache alone
\* the arguments of Set
CacheVals == {1, 2}
Expiries == {1, 2}

\* an empty KVCache of either type
InitCache ==
    /\ InitIdle
    /\ recording = FALSE
    /\ callers = {}
    /\ owner = [p \in Procs |-> 1]
    /\ retryCount = [c \in Coords |-> DefaultRetryCount]
    /\ retryDelay = [c \in Coords |-> DefaultRetryDelay]
    /\ built = [c \in Coords |-> NewRedLockRet([q \in 1..Cardinality(Peers) |-> GoodAddr])]
    /\ cacheType \in {CacheTypeSimple, CacheTypeFreeCache}
    /\ kv = [k \in CacheKeys |-> NoElem]
    /\ got = NoGot

\* what the calls on the KVCache under test leave alone
notCache == <<callVars, recording, retryCount, retryDelay, built, cacheType>>

\* cache.Set(key, val, expiry)
KVCacheSet(key, v, expiry) ==
    /\ kv' = KVSet(cacheType, kv, key, v, expiry)
    /\ got' = [op |-> "Set", key |-> key, val |-> v, expiry |-> expiry, err |-> ErrNil]
    /\ UNCHANGED notCache

\* cache.Get(key)
KVCacheGet(key) ==
    /\ got' = [op |-> "Get", key |-> key, elem |-> KVGet(cacheType, kv, key),
               err |-> ErrNil]
    /\ UNCHANGED <<notCache, kv>>

\* cache.Delete(key)
KVCacheDelete(key) ==
    /\ kv' = KVDelete(cacheType, kv, key)
    /\ got' = [op |-> "Delete", key |-> key]
    /\ UNCHANGED notCache

\* cache.Size()
KVCacheSize ==
    /\ got' = [op |-> "Size", n |-> KVSize(cacheType, kv)]
    /\ UNCHANGED <<notCache, kv>>

\* SimpleCache.gc(), called by the ticker goroutine or directly
SimpleCacheGc ==
    /\ cacheType = CacheTypeSimple
    /\ kv' = gc(kv)
    /\ got' = [op |-> "gc"]
    /\ UNCHANGED notCache

\* one tick passes on the KVCache; the result of the last call is no longer at hand
CacheTick ==
    /\ kv' = [k \in CacheKeys |-> ElemTick(kv[k])]
    /\ got' = NoGot
    /\ UNCHANGED notCache

\* one second passes on the KVCache
SecondTick ==
    /\ kv' = [k \in CacheKeys |-> SecondPasses(kv[k])]
    /\ got' = NoGot
    /\ UNCHANGED notCache

NextCache ==
    \/ \E key \in CacheKeys, v \in CacheVals, expiry \in Expiries : KVCacheSet(key, v, expiry)
    \/ \E key \in CacheKeys : KVCacheGet(key)
    \/ \E key \in CacheKeys : KVCacheDelete(key)
    \/ KVCacheSize
    \/ SimpleCacheGc
    \/ CacheTick
    \/ SecondTick

SpecCache == InitCache /\ [][NextCache]_vars

\* ------------------------------------------ two callers, two Coordinators
\* callers "a" and "b" each use their own Coordinator, after SetRetryCount(1)
InitTwo ==
    /\ InitCommon
    /\ recording = TRUE
    /\ callers = Procs
    /\ owner = [p \in Procs |-> IF p = "a" THEN 1 ELSE 2]
    /\ retryCount = [c \in Coords |-> 1]

\* Lock and UnLock calls whose peers answer or fail within the caller's wait
NextTwo ==
    \/ LiveStep
    \/ \E p \in callers, r \in Resources : UnLockCall(p, r)
    \/ \E p \in callers : UnLockDone(p)

SpecTwo == InitTwo /\ [][NextTwo]_vars

\* ------------------------------------------ the native expiry of the FreeCache
\* time.Second in nanoseconds
Second == 1000 * Millisecond

\* validities from a nanosecond to two seconds
SecsExpiries == {1, 999, 1000, 1001, 1500, Millisecond, Second - 1, Second, Second + 1,
                 Second + 500 * Millisecond, 2 * Second}

InitSecs ==
    /\ InitIdle
    /\ recording = FALSE
    /\ callers = {}
    /\ owner = [p \in Procs |-> 1]
    /\ retryCount = [c \in Coords |-> DefaultRetryCount]
    /\ retryDelay = [c \in Coords |-> DefaultRetryDelay]
    /\ built = [c \in Coords |-> NewRedLockRet([q \in 1..Cardinality(Peers) |-> GoodAddr])]
    /\ cacheType = CacheTypeFreeCache
    /\ kv = [k \in CacheKeys |-> NoElem]
    /\ got = NoGot

\* the calls on a FreeCache, no time passing
NextSecs ==
    \/ \E key \in CacheKeys, v \in CacheVals, expiry \in SecsExpiries :
          KVCacheSet(key, v, expiry)
    \/ \E key \in CacheKeys : KVCacheGet(key)
    \/ \E key \in CacheKeys : KVCacheDelete(key)
    \/ KVCacheSize

SpecSecs == InitSecs /\ [][NextSecs]_vars

\* ------------------------------------------ two callers, one Coordinator
\* two goroutines that call Lock and UnLock on the same *RedLock
InitShared ==
    /\ InitCommon
    /\ recording = FALSE
    /\ callers = Procs
    /\ owner = [p \in Procs |-> 1]
    /\ retryCount = [c \in Coords |-> 1]

NextShared ==
    \/ NextTwo
    \/ \E p \in callers, q \in Peers : SetCancel(p, q)

SpecShared == InitShared /\ [][NextShared]_vars

\* ------------------------------------------ Lock calls whose steps are all taken
\* a caller about to draw the last token, while some peers still store the key under
\* token 1 of an earlier holder
InitTerm ==
    /\ \E S \in SUBSET Peers :
          store = [q \in Peers |-> [r \in Resources |->
                      IF q \in S THEN [val |-> 1, left |-> 2] ELSE NoKey]]
    /\ nextTok = MaxCalls
    /\ inflight = {}
    /\ cache = [c \in Coords |-> [r \in Resources |-> NoElem]]
    /\ pc = [p \in Procs |-> "idle"]
    /\ resource = [p \in Procs |-> "foo"]
    /\ ttl = [p \in Procs |-> 0]
    /\ val = [p \in Procs |-> 0]
    /\ i = [p \in Procs |-> 0]
    /\ cost = [p \in Procs |-> 0]
    /\ success = [p \in Procs |-> 0]
    /\ ctxCancel = [p \in Procs |-> 0]
    /\ done = [p \in Procs |-> {}]
    /\ elem = [p \in Procs |-> 0]
    /\ ret = [p \in Procs |-> NoRet]
    /\ held = {}
    /\ released = {}
    /\ rounds = [p \in Procs |-> 0]
    /\ hadQuorum = [p \in Procs |-> FALSE]
    /\ accepted = [p \in Procs |-> {}]
    /\ cleaned = [p \in Procs |-> {}]
    /\ recording = FALSE
    /\ InitAux
    /\ callers = {"a"}
    /\ owner = [p \in Procs |-> 1]
    /\ \E n \in RetryCounts : retryCount = [c \in Coords |-> n]

\* the steps of Lock calls alone, every outcome of a peer operation among them
NextTerm ==
    \/ LiveStep
    \/ \E p \in callers, q \in Peers : SetNoReply(p, q)
    \/ \E p \in callers, q \in Peers : SetCancel(p, q)
    \/ Tick

\* the goroutine of a SetNX returns with an error once the deadline of cctx has passed
SetDeadline(p) ==
    /\ cost[p] >= ttl[p]
    /\ \E q \in Peers : SetFail(p, q) \/ SetNoReply(p, q)

\* the goroutine of a cleanup delete returns, at the latest at the deadline of its cctx
UnlockReturns(p) == \E q \in Peers : UnlockReply(p, q) \/ UnlockFail(p, q)

\* time passes, pending peer operations end at their deadline, wg.Wait() returns, and
\* Lock's own statements and its bounded sleep run to their end
SpecTerm ==
    /\ InitTerm
    /\ [][NextTerm]_vars
    /\ WF_vars(Tick)
    /\ \A p \in Procs :
          /\ WF_vars(SetDeadline(p))
          /\ WF_vars(LockEval(p))
          /\ WF_vars(UnlockReturns(p))
          /\ WF_vars(CleanDone(p))
          /\ WF_vars(Retry(p))

\* ------------------------------------------------------------ the claims
\* the LockElem of the one Coordinator in use, and whether Get would return it
Live(e) == e.Val # 0 /\ e.age <= e.Expiry
\* the peers that store key r with value t
Storing(r, t) == {q \in Peers : store[q][r].val = t}

\* C1: for every resource, at no instant do two distinct successful Lock calls both
\* have an unexpired validity window without having been released.
C1_MutualExclusion ==
    \A r \in Resources : Cardinality({h \in held : h.key = r}) <= 1

\* C2: while a successful Lock is neither expired nor released, at least quorum peers
\* store the key with that call's token, and none of these keys expires before the
\* validity window ends.
C2_QuorumOutlastsValidity ==
    \A h \in held :
        Cardinality({q \in Storing(h.key, h.tok) : store[q][h.key].left >= h.left})
            >= Cardinality(Peers) \div 2 + 1

\* C3: every Lock call that returns a nil error returns a validity v with 0 < v < ttl,
\* for every ttl and every elapsed acquisition time.
C3_ValidityWithinTTL ==
    [][\A p \in Procs :
          (pc[p] = "lock" /\ pc'[p] = "idle" /\ ret'[p].err = ErrNil)
              => (0 < ret'[p].v /\ ret'[p].v < ttl[p])]_vars

\* C3 witness: a Lock has returned a nil error after time has passed in its round.
C3_Witness ==
    \E p \in Procs :
        /\ ret[p].op = "Lock" /\ ret[p].err = ErrNil
        /\ ret[p].v > 100

\* C4 as stated: when no round of a Lock counted quorum successes, the Lock has run
\* exactly retryCount rounds and has returned the acquire-failed error.
C4_Original ==
    \A p \in Procs :
        (pc[p] = "idle" /\ ret[p].op = "Lock" /\ ~hadQuorum[p])
            => (ret[p].err = ErrAcquireLock /\ rounds[p] = retryCount[owner[p]])

\* C4 amended: a Lock none of whose rounds counted quorum successes returns the
\* cancellation error right after a round in which a goroutine saw the cancellation,
\* and otherwise returns the acquire-failed error after exactly retryCount rounds;
\* it never returns success.
C4_ExhaustsUnlessCanceled ==
    [][\A p \in Procs :
          (pc[p] \in {"lock", "sleep"} /\ pc'[p] = "idle" /\ ~hadQuorum'[p])
              => IF ctxCancel[p] > 0
                 THEN ret'[p].err = ErrCanceled /\ ret'[p].v = 0
                 ELSE /\ ret'[p].err = ErrAcquireLock /\ ret'[p].v = 0
                      /\ rounds[p] = retryCount[owner[p]]]_vars

\* C4 witness: a Lock has returned the acquire-failed error after two rounds, none of
\* which counted quorum successes.
C4_Witness ==
    \E p \in Procs :
        /\ pc[p] = "idle" /\ ret[p].err = ErrAcquireLock
        /\ ~hadQuorum[p] /\ rounds[p] = 2 /\ retryCount[owner[p]] = 2

\* C5: Lock returns (v > 0, nil), (0, cancellation error) or (0, acquire-failed
\* error) and nothing else: no error of a peer operation reaches the caller, and a
\* non-nil error comes with validity 0.
C5_ThreeOutcomes ==
    \A p \in Procs :
        ret[p].op = "Lock"
            => \/ ret[p].err = ErrNil /\ ret[p].v > 0
               \/ ret[p].err = ErrCanceled /\ ret[p].v = 0
               \/ ret[p].err = ErrAcquireLock /\ ret[p].v = 0

\* C5 witness: a Lock has returned success although a peer does not store its token.
C5_Witness ==
    \E p \in Procs, h \in held :
        /\ pc[p] = "idle" /\ ret[p].op = "Lock" /\ ret[p].err = ErrNil
        /\ ret[p].v = h.left
        /\ Storing(h.key, h.tok) # Peers

\* C6: when every peer accepts the conditional-set in the first round and the elapsed
\* time plus the drift stays below ttl, Lock returns a nil error after that round.
C6_FirstAttemptSucceeds ==
    [][\A p \in Procs :
          (/\ pc[p] = "lock" /\ pc'[p] # "lock" /\ i[p] = 0
           /\ success[p] = Cardinality(Peers)
           /\ cost[p] + (ttl[p] * ClockDriftPercent) \div 100 + DriftOverhead < ttl[p])
              => (pc'[p] = "idle" /\ ret'[p].op = "Lock" /\ ret'[p].err = ErrNil)]_vars

\* C6 witness: a Lock has returned success after one round that every peer accepted.
C6_Witness ==
    \E p \in Procs, h \in held :
        /\ pc[p] = "idle" /\ ret[p].op = "Lock" /\ ret[p].err = ErrNil
        /\ rounds[p] = 1
        /\ Storing(h.key, h.tok) = Peers

\* C7: once UnLock(r) has returned, a Get on the cache for r returns absent.
C7_AbsentAfterUnLock ==
    \A p \in Procs :
        (pc[p] = "idle" /\ ret[p].op = "UnLock")
            => CacheGet(cache[owner[p]], resource[p]) = NoElem

\* C7 witness: UnLock has returned after releasing the token of a successful Lock.
C7_Witness ==
    \E p \in Procs :
        pc[p] = "idle" /\ ret[p].op = "UnLock" /\ released # {}

C9_UnLockEvicts ==
    [][\A p \in Procs :
          (pc[p] = "unlock" /\ pc'[p] # "unlock")
              => /\ pc'[p] = "idle"
                 /\ ret'[p].op = "UnLock" /\ ret'[p].err = ErrNil
                 /\ cache'[owner[p]][resource[p]] = NoElem]_vars

\* C9 witness: UnLock has returned nil with the cache entry gone while every peer
\* still stores the released token.
C9_Witness ==
    \E p \in Procs, t \in released :
        /\ pc[p] = "idle" /\ ret[p].op = "UnLock" /\ ret[p].err = ErrNil
        /\ cache[owner[p]][resource[p]] = NoElem
        /\ Storing(resource[p], t) = Peers

\* C10: when a goroutine of a round has seen the caller's cancellation, Lock returns
\* the cancellation error after that round: no cleanup, no further round, no write
\* to the cache, whatever the success count of the round.
C10_CancelFastFail ==
    [][\A p \in Procs :
          (pc[p] = "lock" /\ pc'[p] # "lock" /\ ctxCancel[p] > 0)
              => /\ pc'[p] = "idle"
                 /\ ret'[p].err = ErrCanceled /\ ret'[p].v = 0
                 /\ cache' = cache /\ store' = store /\ inflight' = inflight
                 /\ rounds' = rounds]_vars

\* C10 witness: Lock has returned the cancellation error after a round in which
\* quorum peers accepted its token, and these peers still store it.
C10_Witness ==
    \E p \in Procs :
        /\ pc[p] = "idle" /\ ret[p].err = ErrCanceled
        /\ hadQuorum[p] /\ rounds[p] = 1
        /\ Cardinality(Storing(resource[p], nextTok - 1)) >= Cardinality(Peers) \div 2 + 1

\* C11: when the holder never calls UnLock, no peer key lasts: its remaining time is
\* never extended and every key on every peer disappears as time passes, so that a
\* later Lock finds the peers free.
C11_KeysDisappear ==
    /\ \A q \in Peers, r \in Resources :
          (store[q][r].val # 0) ~> (store[q][r].val = 0)
    /\ [][\A q \in Peers, r \in Resources :
             (store[q][r].val # 0 /\ store'[q][r].val = store[q][r].val)
                 => (store'[q][r].left > 0 /\ store'[q][r].left <= store[q][r].left)]_vars

\* C11 witness: the holder on Coordinator 1 never unlocked, and the Lock of the caller
\* on Coordinator 2 has returned success in a round that every peer accepted.
C11_Witness ==
    /\ cache[1]["foo"].Val = 1 /\ released = {}
    /\ pc["b"] = "idle" /\ ret["b"].op = "Lock" /\ ret["b"].err = ErrNil
    /\ Storing("foo", 2) = Peers

\* C12: NewRedLock fails and returns no Coordinator for every even number of
\* addresses (zero included); for every odd number of well-formed addresses it returns
\* a Coordinator over these addresses with quorum = N/2 + 1; quorum and peer set of a
\* Coordinator never change afterwards.
C12_Construction ==
    /\ [](\A c \in Coords :
             built[c] # NotBuilt =>
                 LET n == Len(built[c].addrs) IN
                 /\ n % 2 = 0 => (built[c].err /\ ~built[c].ok /\ built[c].clients = <<>>)
                 /\ (n % 2 = 1 /\ \A k \in 1..n : built[c].addrs[k] = GoodAddr)
                       => /\ built[c].ok /\ ~built[c].err
                          /\ built[c].clients = built[c].addrs
                          /\ 2 * built[c].quorum > n /\ 2 * built[c].quorum <= n + 1)
    /\ [][\A c \in Coords : built[c] # NotBuilt => built'[c] = built[c]]_vars

\* C12 witness: one Coordinator over five peers with quorum 3 has had its retry
\* count set, and NewRedLock has failed on four well-formed addresses.
C12_Witness ==
    \E c, d \in Coords :
        /\ built[c].ok /\ Len(built[c].clients) = 5 /\ built[c].quorum = 3
        /\ retryCount[c] = 2
        /\ built[d].err /\ built[d].addrs = [k \in 1..4 |-> GoodAddr]

\* C13: SetRetryCount(n) and SetRetryDelay(n) leave the configuration unchanged when
\* n <= 0 and set their field to n when n > 0; retryCount >= 1 and retryDelay >= 1 on
\* every Coordinator after any sequence of calls.
C13_Setters ==
    /\ [](\A c \in Coords : built[c].ok => (retryCount[c] >= 1 /\ retryDelay[c] >= 1))
    /\ [][(got' # got /\ got'.op = "SetRetryCount")
             => /\ retryDelay' = retryDelay
                /\ \A c \in Coords :
                      retryCount'[c] = IF c = got'.c /\ got'.n > 0 THEN got'.n
                                                                   ELSE retryCount[c]]_vars
    /\ [][(got' # got /\ got'.op = "SetRetryDelay")
             => /\ retryCount' = retryCount
                /\ \A c \in Coords :
                      retryDelay'[c] = IF c = got'.c /\ got'.n > 0 THEN got'.n
                                                                   ELSE retryDelay[c]]_vars

\* C13 witness: SetRetryDelay(0) has returned on a Coordinator whose retry delay an
\* earlier call had set to 1, and its retry count has been set to 2.
C13_Witness ==
    \E c \in Coords :
        /\ got = [op |-> "SetRetryDelay", c |-> c, n |-> 0]
        /\ retryDelay[c] = 1 /\ retryCount[c] = 2

\* the LockElem of a stored element, as Get hands it out
ElemOf(e) == [Val |-> e.Val, Expiry |-> e.Expiry, age |-> e.age]

\* C14: for both cache strategies, Get(key) returns absent when the key was never set,
\* was deleted or its record is no longer live (time since Set > validity), and returns
\* the record while it is live.
C14_GetLiveOnly ==
    [][(got' # got /\ got'.op = "Get")
          => got'.elem = IF Live(kv[got'.key]) THEN ElemOf(kv[got'.key]) ELSE NoElem]_vars

\* C15: Set(key, token, validity) overwrites whatever the key held and returns no
\* error: the key then holds exactly that token and validity and no other key changes,
\* and as long as the validity of a stored record has not elapsed Get returns it.
C15_SetOverwrites ==
    /\ [][(got' # got /\ got'.op = "Set")
             => /\ got'.err = ErrNil
                /\ ElemOf(kv'[got'.key])
                      = [Val |-> got'.val, Expiry |-> got'.expiry, age |-> 0]
                /\ \A k \in CacheKeys \ {got'.key} : kv'[k] = kv[k]]_vars
    /\ [](\A k \in CacheKeys :
             (kv[k].Val # 0 /\ kv[k].age <= kv[k].Expiry)
                 => KVGet(cacheType, kv, k) = ElemOf(kv[k]))

\* C15 witness: Set has just replaced a record of another token, and Get would
\* return the new record.
C15_Witness ==
    /\ got.op = "Set" /\ got.val = 2 /\ got.expiry = 2
    /\ KVGet(cacheType, kv, got.key).Val = 2
    /\ \E k \in CacheKeys \ {got.key} : kv[k].Val = 1 /\ kv[k].age > 0

\* C16: after Delete(key), Get(key) returns absent; Delete changes no other entry,
\* also when the key is absent, and a second Delete changes nothing.
C16_DeleteIdempotent ==
    [][(got'.op = "Delete" /\ (got' # got \/ kv' # kv))
          => /\ KVGet(cacheType, kv', got'.key) = NoElem
             /\ kv'[got'.key] = NoElem
             /\ \A k \in CacheKeys \ {got'.key} : kv'[k] = kv[k]
             /\ KVDelete(cacheType, kv', got'.key) = kv']_vars

\* C16 witness: Delete has returned on an absent key while the other key holds a
\* record.
C16_Witness ==
    /\ got.op = "Delete"
    /\ kv[got.key] = NoElem
    /\ \E k \in CacheKeys \ {got.key} : kv[k].Val # 0 /\ kv[k].age = 1

\* C17: in the mapping-based store a sweep removes exactly the records that are no
\* longer live; Size counts every entry that has not been removed, expired ones
\* included, and the passing of time alone removes no entry.
C17_GcAndSize ==
    /\ [][(got'.op = "gc" /\ (got' # got \/ kv' # kv))
             => \A k \in CacheKeys :
                   kv'[k] = IF kv[k].Val # 0 /\ kv[k].age > kv[k].Expiry THEN NoElem
                                                                         ELSE kv[k]]_vars
    /\ [][(got' # got /\ got'.op = "Size" /\ cacheType = CacheTypeSimple)
             => got'.n = Cardinality({k \in CacheKeys : kv[k].Val # 0})]_vars
    /\ [][(got'.op = "none" /\ cacheType = CacheTypeSimple)
             => \A k \in CacheKeys : kv'[k].Val = kv[k].Val]_vars

\* C17 witness: Size has returned 2 on a mapping-based store whose two records have
\* both expired.
C17_Witness ==
    /\ cacheType = CacheTypeSimple
    /\ got = [op |-> "Size", n |-> 2]
    /\ \A k \in CacheKeys : kv[k].Val # 0 /\ kv[k].age > kv[k].Expiry

\* C18: a peer's key is removed by a conditional-delete only when the value it stores
\* equals the value the delete carries: whenever a key leaves a peer, a running cleanup
\* or UnLock fan-out, or a delayed delete, with exactly that value has reached the peer;
\* no caller removes a key stored under another caller's token.
C18_DeleteOnlyOwnToken ==
    [][\A q \in Peers, r \in Resources :
          (store[q][r].val # 0 /\ store'[q][r] # store[q][r])
              => /\ store'[q][r] = NoKey
                 /\ \/ \E p \in callers :
                          /\ pc[p] \in {"clean", "unlock"} /\ resource[p] = r
                          /\ q \notin done[p] /\ q \in done'[p]
                          /\ store[q][r].val = IF pc[p] = "clean" THEN val[p] ELSE elem[p]
                    \/ \E m \in inflight \ inflight' :
                          /\ m.op = "del" /\ m.peer = q /\ m.key = r
                          /\ m.val = store[q][r].val]_vars

\* C18 witness: the cleanup fan-out of one caller has gone through all peers, it has
\* removed the key this caller had set, and the other caller's lock is still stored on
\* a quorum of peers.
C18_Witness ==
    \E p \in callers, h \in held :
        /\ pc[p] = "clean" /\ done[p] = Peers /\ val[p] # h.tok
        /\ \E q \in accepted[p] : store[q][resource[p]] = NoKey
        /\ Cardinality(Storing(h.key, h.tok)) >= Cardinality(Peers) \div 2 + 1

\* C19 as stated: after a round that does not commit (fewer than quorum successes or
\* remaining <= 0) Lock starts the cleanup fan-out with the call's token, leaves it only
\* when all peers are done, and at that moment every peer that accepted the
\* conditional-set in that round shows the key absent.
C19_Original ==
    [][\A p \in callers :
          /\ (/\ pc[p] = "lock" /\ pc'[p] # "lock" /\ ctxCancel[p] = 0
               /\ \/ success[p] < Cardinality(Peers) \div 2 + 1
                  \/ ValidityTime(ttl[p], cost[p]) <= 0)
                => (pc'[p] = "clean" /\ done'[p] = {} /\ val'[p] = val[p])
          /\ (pc[p] = "clean" /\ pc'[p] # "clean")
                => /\ done[p] = Peers /\ pc'[p] = "sleep"
                   /\ \A q \in accepted[p] : store'[q][resource[p]] = NoKey]_vars

\* C19: after a round in which no cancellation was observed and that does not commit,
\* Lock starts the cleanup fan-out with the call's token, every peer is handed one
\* conditional-delete with that token, and Lock leaves the fan-out only when all peers
\* are done; a peer that runs this delete removes the key exactly when it stores it
\* under that token, so a peer that accepted the conditional-set in that round no longer
\* stores the key under the token right after running it. A peer whose delete fails or
\* is still on the wire keeps what it stores.
C19_CleanupFanOut ==
    [][\A p \in callers :
          /\ (/\ pc[p] = "lock" /\ pc'[p] # "lock" /\ ctxCancel[p] = 0
               /\ \/ success[p] < Cardinality(Peers) \div 2 + 1
                  \/ ValidityTime(ttl[p], cost[p]) <= 0)
                => (pc'[p] = "clean" /\ done'[p] = {} /\ val'[p] = val[p])
          /\ (pc[p] = "clean" /\ pc'[p] # "clean")
                => (done[p] = Peers /\ pc'[p] = "sleep")
          /\ pc[p] = "clean" =>
                \A q \in done'[p] \ done[p] :
                    LET r == resource[p] IN
                    /\ q \in cleaned'[p] =>
                          /\ store'[q][r] = IF store[q][r].val = val[p] THEN NoKey
                                                                        ELSE store[q][r]
                          /\ q \in accepted[p] => store'[q][r].val # val[p]
                    /\ q \notin cleaned'[p] =>
                          /\ store'[q] = store[q]
                          /\ \A m \in inflight' \ inflight :
                                 m = [op |-> "del", peer |-> q, key |-> r, val |-> val[p],
                                      ttl |-> 0]]_vars

\* C19 witness: a cleanup fan-out is complete, the peer that had accepted the
\* conditional-set of the round has run the delete and shows the key absent, and the
\* delete of another peer did not run.
C19_Witness ==
    \E p \in callers :
        /\ pc[p] = "clean" /\ done[p] = Peers
        /\ \E q \in accepted[p] \cap cleaned[p] : store[q][resource[p]] = NoKey
        /\ cleaned[p] # Peers

\* C20: a round of Lock commits (Lock returns a nil error) if and only if no goroutine
\* of the round observed the cancellation, the number of peers counted as having
\* accepted the conditional-set is at least the quorum, and remaining = ttl - elapsed -
\* drift is positive; on commit Lock returns remaining and the Ownership Cache of its
\* Coordinator holds for the resource a fresh record with the call's token and validity
\* remaining, whatever it held before; a round that does not commit leaves the caches
\* alone.
C20_CommitCondition ==
    [][\A p \in callers :
          (pc[p] = "lock" /\ pc'[p] # "lock") =>
              LET remaining == ValidityTime(ttl[p], cost[p])
                  met == /\ ctxCancel[p] = 0
                         /\ success[p] >= Cardinality(Peers) \div 2 + 1
                         /\ remaining > 0
              IN  /\ met <=> (pc'[p] = "idle" /\ ret'[p].err = ErrNil)
                  /\ met => /\ ret'[p] = [op |-> "Lock", v |-> remaining, err |-> ErrNil]
                            /\ cache' = [cache EXCEPT ![owner[p]][resource[p]] =
                                  [Val |-> val[p], Expiry |-> remaining, age |-> 0]]
                  /\ ~met => cache' = cache]_vars

\* C20 witness: the second Lock call of a caller has just committed, and the Ownership
\* Cache holds its token with the returned validity.
C20_Witness ==
    \E p \in callers :
        /\ pc[p] = "idle" /\ ret[p].op = "Lock" /\ ret[p].err = ErrNil /\ ret[p].v > 0
        /\ cache[owner[p]]["foo"] = [Val |-> 2, Expiry |-> ret[p].v, age |-> 0]

\* C21: a fresh token is generated for every acquisition attempt: when Lock starts
\* another round after a failed one, that round sends the peers a token that differs
\* from the token of the round before.
C21_FreshTokenPerAttempt ==
    [][\A p \in callers :
          (pc[p] = "sleep" /\ pc'[p] = "lock") => val'[p] # val[p]]_vars

\* C22: the validity a committing round returns is ttl - elapsed - drift with
\* drift = ttl * 0.01 + 2 ms, in the unit of ttl (a time.Duration, nanoseconds): for
\* ttl = 200 ms and elapsed = 0 it is 196 ms.
C22_ValidityArithmetic ==
    [][\A p \in callers :
          (pc[p] = "lock" /\ pc'[p] = "idle" /\ ret'[p].err = ErrNil) =>
              /\ ret'[p].v = ttl[p] - cost[p]
                               - ((ttl[p] * ClockDriftPercent) \div 100 + 2 * Millisecond)
              /\ (ttl[p] = 200 * Millisecond /\ cost[p] = 0)
                    => ret'[p].v = 196 * Millisecond]_vars

\* C23: a Lock call runs at most retryCount SetNX fan-outs; a round is started only by
\* the call itself or after the backoff of a round that neither committed nor saw the
\* cancellation, both of which end the call at once; and every running Lock call
\* returns, because each goroutine of a round or of a cleanup returns at the latest at
\* the deadline of its context.
C23_Terminates ==
    /\ [](\A p \in Procs : rounds[p] <= retryCount[owner[p]])
    /\ [][\A p \in Procs :
            /\ rounds'[p] # rounds[p] =>
                  /\ pc'[p] = "lock"
                  /\ \/ pc[p] = "idle" /\ rounds'[p] = 1
                     \/ pc[p] = "sleep" /\ rounds'[p] = rounds[p] + 1
            /\ (/\ pc[p] = "lock" /\ pc'[p] # "lock"
                 /\ \/ ctxCancel[p] > 0
                    \/ /\ success[p] >= Cardinality(Peers) \div 2 + 1
                       /\ ValidityTime(ttl[p], cost[p]) > 0)
                  => pc'[p] = "idle"
            /\ pc'[p] = "sleep" => pc[p] \in {"clean", "sleep"}]_vars
    /\ \A p \in Procs : (pc[p] \in {"lock", "clean", "sleep"}) ~> (pc[p] = "idle")

\* C23 witness: a Lock has returned the acquire-failed error after its two rounds, one
\* of which had counted a quorum whose validity had run out at the deadline.
C23_Witness ==
    \E p \in Procs :
        /\ pc[p] = "idle" /\ ret[p] = RetAcquireLock
        /\ hadQuorum[p] /\ rounds[p] = 2 /\ retryCount[owner[p]] = 2

C25_CacheRecords ==
    [][/\ \A c \in Coords, r \in Resources :
            cache'[c][r] # cache[c][r] =>
                \/ \E p \in callers :
                      /\ owner[p] = c /\ resource[p] = r
                      /\ pc[p] = "lock" /\ pc'[p] = "idle"
                      /\ ret'[p].op = "Lock" /\ ret'[p].err = ErrNil
                      /\ cache'[c][r] = [Val |-> val[p], Expiry |-> ret'[p].v, age |-> 0]
                \/ \E p \in callers :
                      /\ owner[p] = c /\ resource[p] = r
                      /\ pc[p] = "unlock" /\ pc'[p] = "idle"
                      /\ cache'[c][r] = NoElem
                \/ /\ cache[c][r].Val # 0
                   /\ cache'[c][r] = [cache[c][r] EXCEPT !.age = @ + 1]
       /\ \A p \in callers :
            (pc[p] \in {"lock", "clean", "sleep"} /\ pc'[p] = "idle"
             /\ ret'[p].err # ErrNil) => cache' = cache]_vars

\* C25 witness: a Lock call has returned the cancellation error, and the cache of its
\* Coordinator holds the record of the other caller's successful Lock.
C25_Witness ==
    \E p \in callers :
        /\ pc[p] = "idle" /\ ret[p].op = "Lock" /\ ret[p].err = ErrCanceled
        /\ \E h \in held :
              /\ cache[owner[p]][h.key].Val = h.tok
              /\ cache[owner[p]][h.key].Expiry = h.left

\* C27: UnLock(r) removes from the Ownership Cache only the record whose token it sent
\* in its conditional-deletes: when it returns while the cache holds for r a record
\* with another token, written by a Lock(r) that committed meanwhile on the same
\* Coordinator, that record stays.
C27_UnLockKeepsNewerRecord ==
    [][\A p \in callers :
          (pc[p] = "unlock" /\ pc'[p] = "idle"
           /\ cache[owner[p]][resource[p]].Val # elem[p])
              => cache'[owner[p]][resource[p]] = cache[owner[p]][resource[p]]]_vars

\* C26: the native expiry the fixed-capacity store gives a record is its validity in
\* seconds rounded up to the next whole second: never less than the validity and less
\* than one second more.
C26_NativeExpiry ==
    \A k \in CacheKeys :
        (kv[k].Val # 0 /\ kv[k].Expiry > 0)
            => kv[k].secs = (kv[k].Expiry - 1) \div Second + 1

\* C28: while a round of a Lock call runs, a delayed conditional-delete of the same
\* call, which an earlier round's cleanup sent, leaves alone the key of every peer that
\* accepted the running round's conditional-set; hence when the round commits, every
\* peer counted as a success in it still stores the key under the call's token.
C28_LateCleanupHarmless ==
    [][\A p \in callers :
          pc[p] = "lock" =>
              /\ \A m \in inflight \ inflight' :
                    (m.op = "del" /\ m.val = val[p] /\ m.key = resource[p]
                     /\ m.peer \in accepted[p])
                        => store'[m.peer][m.key] = store[m.peer][m.key]
              /\ (pc'[p] = "idle" /\ ret'[p].err = ErrNil)
                    => \A q \in accepted[p] : store'[q][resource[p]].val = val[p]]_vars

\* C29: when Lock returns the cancellation error, no peer stores the resource key
\* under that call's token.
C29_CancelLeavesNoKey ==
    [][\A p \in callers :
          (pc[p] = "lock" /\ pc'[p] = "idle" /\ ret'[p].err = ErrCanceled)
              => \A q \in Peers : store'[q][resource[p]].val # val[p]]_vars

\* C30: a round whose elapsed time has reached the deadline ttl, as it has as soon as
\* one peer operation ran into the deadline, stays so until it is evaluated and never
\* commits, however many peers accepted the conditional-set; unless a goroutine saw the
\* caller's cancellation, Lock returns nothing at that point and goes on to the
\* cleanup, and after the backoff to the next round or, when the rounds are used up,
\* to the acquire-failed error.
C30_DeadlineNeverCommits ==
    [][\A p \in callers :
          /\ (pc[p] = "lock" /\ cost[p] >= ttl[p]) =>
                /\ ~(pc'[p] = "idle" /\ ret'[p].err = ErrNil)
                /\ cache' = cache
                /\ pc'[p] = "lock" => cost'[p] >= ttl'[p]
                /\ (pc'[p] # "lock" /\ ctxCancel[p] = 0)
                      => (pc'[p] = "clean" /\ ret'[p] = ret[p])
          /\ (pc[p] = "clean" /\ pc'[p] # "clean") => pc'[p] = "sleep"
          /\ (pc[p] = "sleep" /\ pc'[p] # "sleep") =>
                \/ pc'[p] = "lock" /\ rounds'[p] = rounds[p] + 1
                \/ /\ pc'[p] = "idle" /\ ret'[p] = RetAcquireLock
                   /\ rounds[p] = retryCount[owner[p]]]_vars

\* C30 witness: a round in which a quorum of peers accepted the conditional-set and
\* whose elapsed time reached ttl has gone on to the cleanup.
C30_Witness ==
    \E p \in callers :
        /\ pc[p] = "clean" /\ ttl[p] > 0 /\ cost[p] >= ttl[p]
        /\ success[p] = Cardinality(Peers) \div 2 + 1 /\ ctxCancel[p] = 0
        /\ Cardinality(Storing(resource[p], val[p])) >= success[p]

====
